---- MODULE Spec2Model ----
(***************************************************************************)
(* The Hope tokenizer of src/hope/src/syntax/token.rs: a lexer derived     *)
(* from the rule table of `enum Token`, the four callbacks that build      *)
(* positions, and the driver loop of src/hope/src/main.rs.                 *)
(*                                                                         *)
(* A source text is a sequence of characters; a character is a string of   *)
(* length one ("\n", "\"" and "\\" are the newline, the double quote and   *)
(* the backslash).  Offsets are byte offsets counted from 0, as in the     *)
(* spans of the lexer; all characters of the model are ASCII, so a         *)
(* character is one byte.                                                  *)
(***************************************************************************)
EXTENDS Integers, Sequences, FiniteSets, TLC

VARIABLES
    source,       \* the input string the session was constructed over
    line0,        \* the initial line number the session was seeded with
    token_start,  \* Lexer::span().start of the last match
    token_end,    \* Lexer::span().end of the last match: the cursor
    extras,       \* Lexer::extras: the running line counter
    out,          \* the items next() has returned so far, in order
    consumed,     \* history: every span consumed so far, in order
    ended,        \* next() has returned None
    peer          \* a second, independent session: a record of the same fields

vars == <<source, line0, token_start, token_end, extras, out, consumed, ended,
          peer>>

----------------------------------------------------------------------------
(* Bounds of the model *)

\* Longest input enumerated exhaustively over Alphabet.
MaxLen == 3

\* The same where two sessions run side by side.
MaxPairLen == 2

----------------------------------------------------------------------------
(* Character classes of the rule table *)

Digit == {"0", "1", "2", "3", "4", "5", "6", "7", "8", "9"}

Lower == {"a", "b", "c", "d", "e", "f", "g", "h", "i", "j", "k", "l", "m",
          "n", "o", "p", "q", "r", "s", "t", "u", "v", "w", "x", "y", "z"}

Upper == {"A", "B", "C", "D", "E", "F", "G", "H", "I", "J", "K", "L", "M",
          "N", "O", "P", "Q", "R", "S", "T", "U", "V", "W", "X", "Y", "Z"}

\* [[:alpha:]]
Alpha == Lower \cup Upper

\* [[:word:]]
Word == Alpha \cup Digit \cup {"_"}

\* [ \t\f] of the skip rule
HSpace == {" ", "\t", "\f"}

\* \x00-\x1F, as far as the model's characters go
Control == {"\t", "\n", "\f", "\r"}

\* [a-fA-F0-9]
Hex == Digit \cup {"a", "b", "c", "d", "e", "f", "A", "B", "C", "D", "E", "F"}

\* ["\\bnfrt/], the characters that may follow a backslash in a string
Escape == {"\"", "\\", "b", "n", "f", "r", "t", "/"}

\* The characters the symbolic-identifier class negates.
\* A symbolic class that leaves out the dot as well.
NotSymbol_with_dot ==
    Digit \cup Alpha \cup {" ", "\t", "\n", "\f"}
          \cup {"!", "'", "\"", "_", "(", ")", "[", "]", ",", ";", ":", "|", "\\", "."}

NotSymbol ==
    Digit \cup Alpha \cup {" ", "\t", "\n", "\f"}
          \cup {"!", "'", "\"", "_", "(", ")", "[", "]", ",", ";", ":", "|", "\\"}

IsSymbol(c) == c \notin NotSymbol
\* A string character class that lets control characters through.
IsStringChar_allows_control(c) == c \notin {"\"", "\\"}

\* [^"\\\x00-\x1F]
IsStringChar(c) == c \notin ({"\"", "\\"} \cup Control)

----------------------------------------------------------------------------
(* The reserved lexemes: every #[token(..., loc_callback)] of enum Token *)

Reserved ==
    {
       [lexeme |-> <<"(">>, tag |-> "LParen"],
       [lexeme |-> <<")">>, tag |-> "RParen"],
       [lexeme |-> <<"[">>, tag |-> "LSquare"],
       [lexeme |-> <<"]">>, tag |-> "RSquare"],
       [lexeme |-> <<",">>, tag |-> "Comma"],
       [lexeme |-> <<";">>, tag |-> "SemiColon"],
       [lexeme |-> <<"!">>, tag |-> "Bang"],
       [lexeme |-> <<"+", "+">>, tag |-> "PlusPlus"],
       [lexeme |-> <<"-", "-", "-">>, tag |-> "TripleDash"],
       [lexeme |-> <<":">>, tag |-> "Colon"],
       [lexeme |-> <<"<", "=">>, tag |-> "LeftArrowFat"],
       [lexeme |-> <<"=", "=">>, tag |-> "EqEq"],
       [lexeme |-> <<"=", ">">>, tag |-> "RightArrowFat"],
       [lexeme |-> <<"|">>, tag |-> "Pipe"],
       [lexeme |-> <<"a", "b", "s", "t", "y", "p", "e">>, tag |-> "AbsType"],
       [lexeme |-> <<"d", "a", "t", "a">>, tag |-> "Data"],
       [lexeme |-> <<"d", "e", "c">>, tag |-> "Dec"],
       [lexeme |-> <<"d", "i", "s", "p", "l", "a", "y">>, tag |-> "Display"],
       [lexeme |-> <<"e", "l", "s", "e">>, tag |-> "Else"],
       [lexeme |-> <<"e", "d", "i", "t">>, tag |-> "Edit"],
       [lexeme |-> <<"e", "x", "i", "t">>, tag |-> "Exit"],
       [lexeme |-> <<"i", "f">>, tag |-> "If"],
       [lexeme |-> <<"i", "n">>, tag |-> "In"],
       [lexeme |-> <<"i", "n", "f", "i", "x">>, tag |-> "Infix"],
       [lexeme |-> <<"i", "n", "f", "i", "x", "r">>, tag |-> "InfixR"],
       [lexeme |-> <<"i", "n", "f", "i", "x", "r", "l">>, tag |-> "InfixR"],
       [lexeme |-> <<"l", "a", "m", "b", "d", "a">>, tag |-> "Lambda"],
       [lexeme |-> <<"\\">>, tag |-> "Lambda"],
       [lexeme |-> <<"l", "e", "t">>, tag |-> "Let"],
       [lexeme |-> <<"l", "e", "t", "r", "e", "c">>, tag |-> "LetRec"],
       [lexeme |-> <<"p", "r", "i", "v", "a", "t", "e">>, tag |-> "Private"],
       [lexeme |-> <<"s", "a", "v", "e">>, tag |-> "Save"],
       [lexeme |-> <<"t", "h", "e", "n">>, tag |-> "Then"],
       [lexeme |-> <<"t", "y", "p", "e">>, tag |-> "Type"],
       [lexeme |-> <<"t", "y", "p", "e", "v", "a", "r">>, tag |-> "TypeVar"],
       [lexeme |-> <<"u", "s", "e">>, tag |-> "Uses"],
       [lexeme |-> <<"u", "s", "e", "s">>, tag |-> "Uses"],
       [lexeme |-> <<"w", "h", "e", "r", "e">>, tag |-> "Where"],
       [lexeme |-> <<"w", "h", "e", "r", "e", "r", "e", "c">>, tag |-> "WhereRec"],
       [lexeme |-> <<"w", "r", "i", "t", "e">>, tag |-> "Write"],
       [lexeme |-> <<"e", "n", "d">>, tag |-> "End"],
       [lexeme |-> <<"m", "o", "d", "u", "l", "e">>, tag |-> "Module"],
       [lexeme |-> <<"n", "o", "n", "o", "p">>, tag |-> "NonOp"],
       [lexeme |-> <<"p", "u", "b", "c", "o", "n", "s", "t">>, tag |-> "PubConst"],
       [lexeme |-> <<"p", "u", "b", "f", "u", "n">>, tag |-> "PubFun"],
       [lexeme |-> <<"p", "u", "b", "t", "y", "p", "e">>, tag |-> "PubType"]
    }

----------------------------------------------------------------------------
(* Reading the source *)

\* What a read past the end of the source yields.
None == "None"

At(s, k) == IF k < Len(s) THEN s[k + 1] ELSE None

\* Lexer::slice(): the characters of a span.
Slice(s, span) == SubSeq(s, span.start + 1, span.end)

\* The number of consecutive characters of the class C from offset k
\* (k <= Len(s)): a loop [C]* of the lexer.
Run(s, k, C) ==
    LET stops == {j \in k..Len(s) : j = Len(s) \/ s[j + 1] \notin C}
    IN  (CHOOSE j \in stops : \A i \in stops : j <= i) - k

\* The same for a negated class [^C]*.
RunNot(s, k, C) ==
    LET stops == {j \in k..Len(s) : j = Len(s) \/ s[j + 1] \in C}
    IN  (CHOOSE j \in stops : \A i \in stops : j <= i) - k

StartsWith(s, k, w) ==
    /\ k + Len(w) <= Len(s)
    /\ SubSeq(s, k + 1, k + Len(w)) = w

----------------------------------------------------------------------------
(* The regular expressions of the rule table: the length of the longest    *)
(* match of each at offset k, 0 when it does not match there.              *)

\* A word rule without the trailing apostrophes.
WordLen_no_apostrophes(s, k) ==
    IF At(s, k) \in Alpha \cup {"_"} THEN 1 + Run(s, k + 1, Word) ELSE 0

\* ([[:alpha:]]|_)[[:word:]]*'*
WordLen(s, k) ==
    IF At(s, k) \in Alpha \cup {"_"}
    THEN LET w == 1 + Run(s, k + 1, Word)
         IN  w + Run(s, k + w, {"'"})
    ELSE 0

\* A symbolic rule without the +: one character at a time.
SymbolLen_single(s, k) == IF RunNot(s, k, NotSymbol) > 0 THEN 1 ELSE 0

\* [^[[:digit:]][[:alpha:]][ \t\n\f]!'"_\(\)\[\],;:|\\]+
SymbolLen(s, k) == RunNot(s, k, NotSymbol)

\* [[:digit:]]+(\.[[:digit:]]+)?([eE][-+]?[[:digit:]]+)?
\* A fraction whose digits are optional: \.[[:digit:]]*
FractionLen_optional_digits(s, k) ==
    IF At(s, k) = "." THEN 1 + Run(s, k + 1, Digit) ELSE 0

FractionLen(s, k) ==
    IF At(s, k) = "." /\ Run(s, k + 1, Digit) > 0
    THEN 1 + Run(s, k + 1, Digit)
    ELSE 0

ExponentLen(s, k) ==
    IF At(s, k) \in {"e", "E"}
    THEN LET sign == IF At(s, k + 1) \in {"-", "+"} THEN 1 ELSE 0
             digits == IF k + 1 + sign <= Len(s)
                       THEN Run(s, k + 1 + sign, Digit) ELSE 0
         IN  IF digits > 0 THEN 1 + sign + digits ELSE 0
    ELSE 0

NumLen(s, k) ==
    LET int == Run(s, k, Digit)
    IN  IF int = 0 THEN 0
        ELSE LET frac == FractionLen(s, k + int)
             IN  int + frac + ExponentLen(s, k + int + frac)

\* The loop of the string rule, entered at offset k after the opening quote:
\* ([^"\\\x00-\x1F]|\\(["\\bnfrt/]|u[a-fA-F0-9]{4}))* and then the closing
\* quote.  It yields the offset the loop stops at and whether a closing quote
\* is there.
RECURSIVE StringLoop(_, _)
StringLoop(s, k) ==
    LET c == At(s, k)
    IN  CASE c = None -> [at |-> k, closed |-> FALSE]
          [] c = "\"" -> [at |-> k, closed |-> TRUE]
          [] c = "\\" ->
                IF At(s, k + 1) \in Escape
                THEN StringLoop(s, k + 2)
                ELSE IF /\ At(s, k + 1) = "u"
                        /\ \A i \in 2..5 : At(s, k + i) \in Hex
                     THEN StringLoop(s, k + 6)
                     ELSE [at |-> k, closed |-> FALSE]
          [] OTHER ->
                IF IsStringChar(c)
                THEN StringLoop(s, k + 1)
                ELSE [at |-> k, closed |-> FALSE]

StringLen(s, k) ==
    IF At(s, k) = "\""
    THEN LET l == StringLoop(s, k + 1)
         IN  IF l.closed THEN l.at + 1 - k ELSE 0
    ELSE 0

\* \n
NewlineLen(s, k) == IF At(s, k) = "\n" THEN 1 ELSE 0

\* skip [ \t\f]+
SkipLen(s, k) == Run(s, k, HSpace)

----------------------------------------------------------------------------
(* str::parse::<f64>() on the slice of a number lexeme.  The value is kept *)
(* as the decimal it denotes, mant * 10^exp with mant not a multiple of    *)
(* ten (so 4, 4.0 and 40e-1 are the same value); every number of the       *)
(* model's inputs is far inside the range where distinct short decimals    *)
(* are distinct doubles.                                                   *)

DigitSeq == <<"0", "1", "2", "3", "4", "5", "6", "7", "8", "9">>

DigitValue(c) == (CHOOSE i \in 1..Len(DigitSeq) : DigitSeq[i] = c) - 1

RECURSIVE DigitsValue(_)
DigitsValue(ds) ==
    IF ds = <<>> THEN 0
    ELSE 10 * DigitsValue(SubSeq(ds, 1, Len(ds) - 1)) + DigitValue(ds[Len(ds)])

RECURSIVE Normalise(_, _)
Normalise(mant, exp) ==
    IF mant = 0 THEN [mant |-> 0, exp |-> 0]
    ELSE IF mant % 10 = 0 THEN Normalise(mant \div 10, exp + 1)
    ELSE [mant |-> mant, exp |-> exp]

\* The value of the exponent part of length e > 0 at offset m.
ExponentValue(slice, m, e) ==
    LET sign == IF At(slice, m + 1) \in {"-", "+"} THEN 1 ELSE 0
        v    == DigitsValue(SubSeq(slice, m + 2 + sign, m + e))
    IN  IF At(slice, m + 1) = "-" THEN 0 - v ELSE v

\* The decimal with int digits before the point, frac digits after it (dot is 1
\* when there is a point) and then an exponent part or nothing.
ParseDecimal(slice, int, dot, frac) ==
    LET e == ExponentLen(slice, int + dot + frac)
    IN  IF int + frac > 0 /\ int + dot + frac + e = Len(slice)
        THEN [ok |-> TRUE,
              value |-> Normalise(
                  DigitsValue(SubSeq(slice, 1, int)
                              \o SubSeq(slice, int + 2, int + 1 + frac)),
                  (IF e = 0 THEN 0 ELSE ExponentValue(slice, int + dot + frac, e))
                      - frac)]
        ELSE [ok |-> FALSE, error |-> "ParseFloatError"]

ParseFraction(slice, int) ==
    IF At(slice, int) = "."
    THEN ParseDecimal(slice, int, 1, Run(slice, int + 1, Digit))
    ELSE ParseDecimal(slice, int, 0, 0)

ParseF64(slice) == ParseFraction(slice, Run(slice, 0, Digit))

----------------------------------------------------------------------------
(* The callbacks *)

\* A newline rule that leaves the line counter alone.
newline_callback_forgets(ex) == ex

\* fn newline_callback: lex.extras += 1
newline_callback(ex) == ex + 1

\* A position whose column is the 0-based offset.
loc_callback_zero_based(ex, span) ==
    [line |-> ex, column |-> span.start, range |-> span]

\* fn loc_callback
loc_callback(ex, span) ==
    [line |-> ex, column |-> span.start + 1, range |-> span]

\* A string callback whose range runs from the start of the input.
string_callback_from_zero(ex, span, slice) ==
    [text |-> slice,
     pos  |-> [line |-> ex, column |-> span.start + 1,
               range |-> [start |-> 0, end |-> span.end]]]

\* A string callback that drops the quotes of a string literal.
string_callback_unquoted(ex, span, slice) ==
    [text |-> IF Head(slice) = "\"" THEN SubSeq(slice, 2, Len(slice) - 1) ELSE slice,
     pos  |-> [line |-> ex, column |-> span.start + 1, range |-> span]]

\* fn string_callback
string_callback(ex, span, slice) ==
    [text |-> slice,
     pos  |-> [line |-> ex, column |-> span.start + 1, range |-> span]]

\* impl From<ParseFloatError> for LexingError
FromParseFloatError(e) == "InvalidNumber"

\* fn num_callback
num_callback(ex, span, slice) ==
    LET body == ParseF64(slice)
    IN  IF ~body.ok
        THEN [ok |-> FALSE, error |-> FromParseFloatError(body.error)]
        ELSE [ok |-> TRUE, value |-> body.value,
              pos |-> [line |-> ex, column |-> span.start + 1, range |-> span]]

----------------------------------------------------------------------------
(* The derived lexer: at the cursor every rule is tried, the longest match *)
(* wins, and among rules matching that same longest prefix the one of      *)
(* highest priority.                                                       *)

RegexRules == {"Newline", "Skip", "Word", "Symbol", "String", "Num"}

RegexLen(rule, s, k) ==
    CASE rule = "Newline" -> NewlineLen(s, k)
      [] rule = "Skip"    -> SkipLen(s, k)
      [] rule = "Word"    -> WordLen(s, k)
      [] rule = "Symbol"  -> SymbolLen(s, k)
      [] rule = "String"  -> StringLen(s, k)
      [] rule = "Num"     -> NumLen(s, k)

\* The variant each regex is attached to.
RegexTag(rule) ==
    CASE rule \in {"Word", "Symbol"} -> "Identifier"
      [] OTHER -> rule

\* The priority the derive computes for a rule: 2 for every literal character
\* and for every character class outside a loop or an option; an alternation
\* counts its cheapest branch.  The string rule has its two quotes, every other
\* regex one leading class.
\* Regexes ranked above every reserved lexeme.
RegexPriority_high(rule) == 100

RegexPriority(rule) == IF rule = "String" THEN 2 + 2 ELSE 2

\* Reserved lexemes ranked below every regex.
TokenPriority_low(lexeme) == 1

TokenPriority(lexeme) == 2 * Len(lexeme)

Candidates(s, k) ==
    {[tag |-> RegexTag(r), len |-> RegexLen(r, s, k), priority |-> RegexPriority(r)] :
        r \in {r \in RegexRules : RegexLen(r, s, k) > 0}}
    \cup
    {[tag |-> r.tag, len |-> Len(r.lexeme), priority |-> TokenPriority(r.lexeme)] :
        r \in {r \in Reserved : StartsWith(s, k, r.lexeme)}}

\* The shortest match wins.
Select_shortest(C) ==
    CHOOSE c \in C : \A d \in C :
        \/ d.len > c.len
        \/ d.len = c.len /\ d.priority <= c.priority

\* Priority first, length second.
Select_priority_first(C) ==
    CHOOSE c \in C : \A d \in C :
        \/ d.priority < c.priority
        \/ d.priority = c.priority /\ d.len <= c.len

\* Longest match first, priority second.
Select(C) ==
    CHOOSE c \in C : \A d \in C :
        \/ d.len < c.len
        \/ d.len = c.len /\ d.priority <= c.priority

\* An error at an apostrophe that leaves the cursor where it is.
ErrorEnd_no_progress(s, k) ==
    IF At(s, k) = "\"" THEN StringLoop(s, k + 1).at ELSE k

\* An error that also consumes the character the string rule stopped at.
ErrorEnd_past_offender(s, k) ==
    IF At(s, k) = "\"" THEN StringLoop(s, k + 1).at + 1 ELSE k + 1

\* Where the cursor stands when no rule matches at offset k < Len(s).  Nothing
\* matches at an apostrophe, which costs one character, and at a double quote
\* whose string does not close: the string rule has then advanced over the
\* quote and every complete character or escape that follows it.
ErrorEnd(s, k) ==
    IF At(s, k) = "\"" THEN StringLoop(s, k + 1).at ELSE k + 1

Span(a, b) == [start |-> a, end |-> b]

Consumed(span, kind) == [start |-> span.start, end |-> span.end, kind |-> kind]

\* Lexer::next(): one call, from cursor k with line counter ex.  It yields what
\* the call returns (item, when kind is "token" or "error"; None when kind is
\* "end"), the span of the match, the line counter after the call, and the spans
\* the call went over, the skipped ones first.
RECURSIVE LexerNext(_, _, _)
LexerNext(s, k, ex) ==
    IF k >= Len(s)
    THEN [kind |-> "end", spans |-> <<>>, span |-> Span(k, k), extras |-> ex]
    ELSE
    LET C == Candidates(s, k)
    IN  IF C = {}
        THEN LET span == Span(k, ErrorEnd(s, k))
             IN  [kind |-> "error", spans |-> <<Consumed(span, "error")>>,
                  span |-> span, extras |-> ex,
                  item |-> [ok |-> FALSE, error |-> "UnrecognisedCharacter"]]
        ELSE
        LET m    == Select(C)
            span == Span(k, k + m.len)
            tok(item) == [kind |-> "token", spans |-> <<Consumed(span, "token")>>,
                          span |-> span, extras |-> ex, item |-> item]
        IN  CASE m.tag = "Skip" ->
                   LET r == LexerNext(s, span.end, ex)
                   IN  [r EXCEPT !.spans = <<Consumed(span, "skip")>> \o @]
              [] m.tag = "Newline" ->
                   LET r == LexerNext(s, span.end, newline_callback(ex))
                   IN  [r EXCEPT !.spans = <<Consumed(span, "newline")>> \o @]
              [] m.tag \in {"Identifier", "String"} ->
                   LET f == string_callback(ex, span, Slice(s, span))
                   IN  tok([ok |-> TRUE, tag |-> m.tag, text |-> f.text, pos |-> f.pos])
              [] m.tag = "Num" ->
                   LET n == num_callback(ex, span, Slice(s, span))
                   IN  IF n.ok
                       THEN tok([ok |-> TRUE, tag |-> "Num", value |-> n.value, pos |-> n.pos])
                       ELSE [kind |-> "error", spans |-> <<Consumed(span, "error")>>,
                             span |-> span, extras |-> ex,
                             item |-> [ok |-> FALSE, error |-> n.error]]
              [] OTHER ->
                   tok([ok |-> TRUE, tag |-> m.tag, pos |-> loc_callback(ex, span)])

----------------------------------------------------------------------------
(* The inputs of the model *)

\* Inputs of the tests and of the documentation, and others the enumeration
\* is too short for.
Examples ==
    {
       <<"_", "l", "i", "f", "t", "0", "'">>,
       <<"a", "\n", "b", "\n", "c">>,
       <<"+", "+", "+">>,
       <<"+", "+", " ", "+">>,
       <<"+", "+">>,
       <<"#">>,
       <<"-", ">">>,
       <<">", ">">>,
       <<"<", ">">>,
       <<"=">>,
       <<"/", "=">>,
       <<"4", ".", "a">>,
       <<"4", ".", "5">>,
       <<"4", "0", "e", "-", "1">>,
       <<"4", "e", "+">>,
       <<"i", "f", "f">>,
       <<"l", "e", "t", "r", "e", "c", " ", "x">>,
       <<"x", " ", "=", "=", " ", "4">>,
       <<"\"", "a", "b", "\"">>,
       <<"\"", "a", "\\", "n", "\"">>,
       <<"\"", "\\", "u", "0", "a", "F", "4", "\"">>,
       <<"\"", "a", "\r", "b", "\"">>,
       <<"\"", "a", "\\", "q", "\"">>,
       <<"a", "\r", "b">>,
       <<"x", "'", " ", "'">>,
       <<"-", "-", "-", "-">>,
       <<"<", "=", "=">>,
       <<"i", "f", " ", "x", " ", "t", "h", "e", "n", " ", "y">>,
       <<"a", " ", "\t", "\f", "\n", " ", "b">>,
       <<"'", "a", "\n", "\"", "b">>,
       <<"'", " ", "i", "f", " ", "4">>,
       <<"a", " ", "'", "\n", "b">>
    }

\* The characters the inputs are enumerated over.
Alphabet == {"i", "f", "4", "_", "'", "\"", "\\", "\n", "\r", " ", "+", "=", "."}

Strings(n) == UNION {[1..m -> Alphabet] : m \in 0..n}

ReservedLexemes == {r.lexeme : r \in Reserved}

Inputs == Strings(MaxLen) \cup Examples \cup ReservedLexemes

----------------------------------------------------------------------------
(* The session *)

\* extras = usize: a session constructed without an explicit line number,
\* Token::lexer(source), starts with usize::default().
DefaultExtras == 0

\* The initial line numbers sessions are seeded with: 1 as in main and in the
\* test, and usize::default(), which is what Token::lexer(source) gives.
InitialLines == {DefaultExtras, 1}

\* Token::lexer_with_extras(s, line) as a record.
Session(s, line) ==
    [source |-> s, line0 |-> line, token_start |-> 0, token_end |-> 0,
     extras |-> line, out |-> <<>>, ended |-> FALSE]

\* Where one session runs alone, the second is a finished session over the
\* empty input.
NoSession == [Session(<<>>, DefaultExtras) EXCEPT !.ended = TRUE]

\* Token::lexer_with_extras(source, line): the cursor at 0, the line counter
\* as given.
Init ==
    /\ source \in Inputs
    /\ line0 \in InitialLines
    /\ token_start = 0
    /\ token_end = 0
    /\ extras = line0
    /\ out = <<>>
    /\ consumed = <<>>
    /\ ended = FALSE
    /\ peer = NoSession

Advance(r) ==
    /\ token_start' = r.span.start
    /\ token_end' = r.span.end
    /\ extras' = r.extras
    /\ consumed' = consumed \o r.spans
    /\ UNCHANGED <<source, line0, peer>>

\* for tok in lex { match tok { Ok(token) => ... } }
NextOk ==
    /\ ~ended
    /\ LET r == LexerNext(source, token_end, extras)
       IN  /\ r.kind = "token"
           /\ out' = Append(out, r.item)
           /\ Advance(r)
    /\ UNCHANGED ended

\* An error that ends the iteration.
NextErr_halts ==
    /\ ~ended
    /\ LET r == LexerNext(source, token_end, extras)
       IN  /\ r.kind = "error"
           /\ out' = Append(out, r.item)
           /\ Advance(r)
    /\ ended' = TRUE

\* for tok in lex { match tok { Err(e) => ... } }
NextErr ==
    /\ ~ended
    /\ LET r == LexerNext(source, token_end, extras)
       IN  /\ r.kind = "error"
           /\ out' = Append(out, r.item)
           /\ Advance(r)
    /\ UNCHANGED ended

\* next() returns None and the loop is left.
NextEnd ==
    /\ ~ended
    /\ LET r == LexerNext(source, token_end, extras)
       IN  /\ r.kind = "end"
           /\ Advance(r)
    /\ ended' = TRUE
    /\ UNCHANGED out

Next == NextOk \/ NextErr \/ NextEnd

Spec == Init /\ [][Next]_vars

----------------------------------------------------------------------------
(* Two sessions side by side: each Lexer owns its source, span and extras. *)

\* The characters the inputs of two sessions are enumerated over: a word, a
\* newline, the two characters an error starts at, a blank.
PairAlphabet == {"i", "\n", "'", "\"", " "}

PairInputs == UNION {[1..m -> PairAlphabet] : m \in 0..MaxPairLen} \cup Examples

\* The second session is over the same input or over another one.
PeerInputs == {<<"'", "a", "\n", "\"", "b">>}

InitPair ==
    /\ source \in PairInputs
    /\ line0 \in InitialLines
    /\ token_start = 0
    /\ token_end = 0
    /\ extras = line0
    /\ out = <<>>
    /\ consumed = <<>>
    /\ ended = FALSE
    /\ peer \in {Session(s, l) : s \in {source} \cup PeerInputs, l \in InitialLines}

\* The second session after a next() that returned r.
PeerAdvance(r) ==
    [peer EXCEPT !.token_start = r.span.start,
                 !.token_end = r.span.end,
                 !.extras = r.extras,
                 !.out = IF r.kind = "end" THEN @ ELSE Append(@, r.item),
                 !.ended = (r.kind = "end")]

\* A second session whose line counter is the first session's.
PeerNext_shared_counter ==
    /\ ~peer.ended
    /\ peer' = PeerAdvance(LexerNext(peer.source, peer.token_end, extras))
    /\ extras' = peer'.extras
    /\ UNCHANGED <<source, line0, token_start, token_end, out, consumed, ended>>

\* One next() of the second session, whatever it returns.
PeerNext ==
    /\ ~peer.ended
    /\ peer' = PeerAdvance(LexerNext(peer.source, peer.token_end, peer.extras))
    /\ UNCHANGED <<source, line0, token_start, token_end, extras, out, consumed,
                   ended>>

NextPair == Next \/ PeerNext

SpecPair == InitPair /\ [][NextPair]_vars

----------------------------------------------------------------------------
(* Vocabulary of the properties *)

Last(q) == q[Len(q)]

Max(S) == CHOOSE x \in S : \A y \in S : y <= x

\* The number of newline characters of s before offset k.
NewlinesBefore(s, k) == Cardinality({j \in 1..k : s[j] = "\n"})

\* The offset at which the line holding offset k starts: just past the most
\* recent newline before k, 0 on the first line.
LineStart(s, k) ==
    LET nl == {j \in 1..k : s[j] = "\n"}
    IN  IF nl = {} THEN 0 ELSE Max(nl)

\* The positions in out of the Ok items (the tokens).
TokenIndexes == {i \in 1..Len(out) : out[i].ok}

RECURSIVE Flatten(_)
Flatten(qs) == IF qs = <<>> THEN <<>> ELSE Head(qs) \o Flatten(Tail(qs))

Identifier(text, line, start) ==
    [ok |-> TRUE, tag |-> "Identifier", text |-> text,
     pos |-> [line |-> line, column |-> start + 1,
              range |-> Span(start, start + Len(text))]]

----------------------------------------------------------------------------
(* C1 *)

\* C1: the spans consumed by successive steps (tokens, errors, skipped
\* whitespace, skipped newlines) are contiguous: the first starts at 0, each
\* starts where the previous one ended and ends no earlier, the last ends at the
\* cursor, and once end-of-input is signalled the cursor is the input length and
\* the slices of the spans, concatenated, are the input.
C1_SpansReconstructInput ==
    /\ consumed # <<>> => consumed[1].start = 0
    /\ \A i \in 1..Len(consumed) : consumed[i].start < consumed[i].end
    /\ \A i \in 1..(Len(consumed) - 1) : consumed[i + 1].start = consumed[i].end
    /\ (IF consumed = <<>> THEN 0 ELSE Last(consumed).end) = token_end
    /\ token_end <= Len(source)
    /\ Flatten([i \in 1..Len(consumed) |-> Slice(source, consumed[i])])
         = SubSeq(source, 1, token_end)
    /\ ended => token_end = Len(source)

\* A finished session that went over a token, an error, skipped whitespace and
\* a skipped newline.
C1_Witness ==
    /\ ended
    /\ {"token", "error", "skip", "newline"}
         \subseteq {consumed[i].kind : i \in 1..Len(consumed)}

----------------------------------------------------------------------------
(* C2 *)

\* C2: every token's line is the initial line plus the number of newlines of
\* the input before the token's range.start, and the line counter is the
\* initial line plus the number of newlines before the cursor (one increment
\* per consumed newline, none by any other rule); "a\nb\nc" seeded with 1 gives
\* the lines 1, 2, 3.
C2_LineCountsNewlines ==
    /\ extras = line0 + NewlinesBefore(source, token_end)
    /\ \A i \in TokenIndexes :
          out[i].pos.line = line0 + NewlinesBefore(source, out[i].pos.range.start)
    /\ (ended /\ line0 = 1 /\ source = <<"a", "\n", "b", "\n", "c">>) =>
          out = <<Identifier(<<"a">>, 1, 0), Identifier(<<"b">>, 2, 2),
                  Identifier(<<"c">>, 3, 4)>>

C2_Witness ==
    /\ ended
    /\ line0 = 1
    /\ source = <<"a", "\n", "b", "\n", "c">>
    /\ [i \in 1..Len(out) |-> out[i].pos.line] = <<1, 2, 3>>

----------------------------------------------------------------------------
(* C3 *)

\* C3: every token's column is counted from the start of the line the token is
\* on: column = range.start - (offset of the most recent newline before the
\* token) + 1.  Either way of counting is accepted: from the offset at which the
\* line starts (the first character of a line has column 1, as on the first
\* line), or from the offset of the newline character itself.
C3_ColumnWithinLine ==
    \A i \in TokenIndexes :
        LET start == out[i].pos.range.start
            line  == LineStart(source, start)
        IN  \/ out[i].pos.column = start - line + 1
            \/ line > 0 /\ out[i].pos.column = start - (line - 1) + 1

----------------------------------------------------------------------------
(* C4 *)

\* C4: every token carries the line counter's value at the moment of the
\* match, column = range.start + 1 with range.start the offset from the start
\* of the input, and range = the matched span; "_lift0'" seeded with 1 gives one
\* Identifier with line 1, column 1, range 0..7.
C4_PositionOfMatch ==
    /\ \A i \in TokenIndexes :
          /\ out[i].pos.column = out[i].pos.range.start + 1
          /\ \E j \in 1..Len(consumed) :
                /\ consumed[j].kind = "token"
                /\ out[i].pos.range = Span(consumed[j].start, consumed[j].end)
    /\ (~ended /\ consumed # <<>> /\ Last(consumed).kind = "token") =>
          Last(out).pos = [line |-> extras, column |-> token_start + 1,
                           range |-> Span(token_start, token_end)]
    /\ (ended /\ line0 = 1 /\ source = <<"_", "l", "i", "f", "t", "0", "'">>) =>
          out = <<Identifier(source, 1, 0)>>

\* A token has been emitted past a newline and not at the start of its line.
C4_Witness ==
    /\ ended
    /\ \E i \in TokenIndexes :
          /\ out[i].pos.line > line0
          /\ out[i].pos.column = out[i].pos.range.start + 1
          /\ out[i].pos.range.start > LineStart(source, out[i].pos.range.start)

----------------------------------------------------------------------------
(* C5 *)

PlusRun == <<"+", "+", "+">>

\* A token or an error starts at offset k.
LexemeStartsAt(k) ==
    \E j \in 1..Len(consumed) :
        consumed[j].kind \in {"token", "error"} /\ consumed[j].start = k

Reserved1(tag, line, start, end) ==
    [ok |-> TRUE, tag |-> tag,
     pos |-> [line |-> line, column |-> start + 1, range |-> Span(start, end)]]

\* C5 as stated: where the run "+++" stands at the start of a lexeme, the
\* session emits PlusPlus for its first two characters and then Identifier("+")
\* for the third.
C5_PlusPlusThenPlus ==
    ended =>
        \A k \in 0..(Len(source) - 3) :
            (StartsWith(source, k, PlusRun) /\ LexemeStartsAt(k)) =>
                \E i \in 1..(Len(out) - 1) :
                    /\ out[i].ok /\ out[i].tag = "PlusPlus"
                    /\ out[i].pos.range = Span(k, k + 2)
                    /\ out[i + 1].ok /\ out[i + 1].tag = "Identifier"
                    /\ out[i + 1].text = <<"+">>
                    /\ out[i + 1].pos.range = Span(k + 2, k + 3)

\* C5, amended: where the run "+++" stands at the start of a lexeme, the session
\* emits one Identifier that starts there and covers the run ("+++" alone gives
\* Identifier("+++") over 0..3): the longest match wins over the reserved "++".
\* PlusPlus is emitted only for a "++" that no symbolic-identifier character
\* follows; "++ +" gives PlusPlus and then Identifier("+").
C5_LongestMatchWins ==
    /\ \A i \in TokenIndexes :
          out[i].tag = "PlusPlus" =>
              LET r == out[i].pos.range
              IN  /\ Slice(source, r) = <<"+", "+">>
                  /\ r.end = Len(source) \/ ~IsSymbol(At(source, r.end))
    /\ ended =>
          \A k \in 0..(Len(source) - 3) :
              (StartsWith(source, k, PlusRun) /\ LexemeStartsAt(k)) =>
                  \E i \in TokenIndexes :
                      /\ out[i].tag = "Identifier"
                      /\ out[i].pos.range.start = k
                      /\ out[i].pos.range.end >= k + 3
                      /\ SubSeq(out[i].text, 1, 3) = PlusRun
    /\ (ended /\ source = PlusRun) => out = <<Identifier(PlusRun, line0, 0)>>
    /\ (ended /\ source = <<"+", "+", " ", "+">>) =>
          out = <<Reserved1("PlusPlus", line0, 0, 2), Identifier(<<"+">>, line0, 3)>>

C5_Witness ==
    /\ ended
    /\ source = PlusRun
    /\ Len(out) = 1
    /\ out[1].tag = "Identifier"
    /\ out[1].text = PlusRun

----------------------------------------------------------------------------
(* C6 *)

\* s as a whole has the shape of a word identifier: an alphabetic character or
\* underscore, then alphanumeric characters or underscores, then apostrophes.
MatchesWordPattern(s) ==
    /\ s # <<>>
    /\ s[1] \in Alpha \cup {"_"}
    /\ \E n \in 1..Len(s) :
          /\ \A j \in 2..n : s[j] \in Alpha \cup Digit \cup {"_"}
          /\ \A j \in (n + 1)..Len(s) : s[j] = "'"

\* C6 as stated: an input that as a whole matches the word-identifier pattern
\* yields exactly one item, an Identifier whose text is the input.
C6_WordIsOneIdentifier ==
    (ended /\ MatchesWordPattern(source)) =>
        out = <<Identifier(source, line0, 0)>>

\* C6, amended: an input that as a whole matches the word-identifier pattern
\* and is not a reserved keyword yields exactly one item, an Identifier whose
\* text is the input.
C6_NonReservedWordIsOneIdentifier ==
    (ended /\ MatchesWordPattern(source) /\ source \notin ReservedLexemes) =>
        out = <<Identifier(source, line0, 0)>>

C6_Witness ==
    /\ ended
    /\ MatchesWordPattern(source)
    /\ source \notin ReservedLexemes
    /\ \E j \in 1..Len(source) : source[j] = "'"
    /\ \E j \in 1..Len(source) : source[j] \in Digit
    /\ out = <<Identifier(source, line0, 0)>>

----------------------------------------------------------------------------
(* C7 *)

\* The aliases the documentation names, with the tag each yields.
NamedLexemes ==
    {[lexeme |-> <<"i", "f">>, tag |-> "If"],
     [lexeme |-> <<"i", "n", "f", "i", "x", "r">>, tag |-> "InfixR"],
     [lexeme |-> <<"i", "n", "f", "i", "x", "r", "l">>, tag |-> "InfixR"],
     [lexeme |-> <<"u", "s", "e">>, tag |-> "Uses"],
     [lexeme |-> <<"u", "s", "e", "s">>, tag |-> "Uses"],
     [lexeme |-> <<"\\">>, tag |-> "Lambda"],
     [lexeme |-> <<"l", "a", "m", "b", "d", "a">>, tag |-> "Lambda"]}

\* C7: an input that is exactly a reserved lexeme yields exactly one token, the
\* reserved tag of that lexeme and never an Identifier; "if" yields If, "infixr"
\* and "infixrl" InfixR, "use" and "uses" Uses, a backslash and "lambda" Lambda.
C7_ReservedLexemeYieldsItsTag ==
    /\ NamedLexemes \subseteq Reserved
    /\ \A r \in Reserved :
          (ended /\ source = r.lexeme) =>
              out = <<Reserved1(r.tag, line0, 0, Len(source))>>

C7_Witness ==
    /\ ended
    /\ source = <<"i", "n", "f", "i", "x", "r", "l">>
    /\ out = <<Reserved1("InfixR", line0, 0, 7)>>

----------------------------------------------------------------------------
(* C8 *)

SymbolicInputs ==
    {<<"#">>, <<"-", ">">>, <<">", ">">>, <<"<", ">">>, <<"=">>, <<"/", "=">>}

\* C8: each of the inputs # -> >> <> = /= yields exactly one item, an
\* Identifier whose text is the input ("=" is not taken for a part of the
\* reserved ==, => or <=).
C8_SymbolicIdentifiers ==
    (ended /\ source \in SymbolicInputs) =>
        out = <<Identifier(source, line0, 0)>>

C8_Witness ==
    /\ ended
    /\ source = <<"/", "=">>
    /\ out = <<Identifier(source, line0, 0)>>

----------------------------------------------------------------------------
(* C9 *)

\* C9: every token has a non-empty range, and of two tokens the later emitted
\* starts at or after the end of the earlier: starts never decrease and ranges
\* never overlap.
C9_RangesOrdered ==
    /\ \A i \in TokenIndexes : out[i].pos.range.start < out[i].pos.range.end
    /\ \A i, j \in TokenIndexes :
          i < j => out[i].pos.range.end <= out[j].pos.range.start

\* Three tokens in a row, each starting exactly where the previous one ended.
C9_Witness ==
    /\ ended
    /\ \E i \in TokenIndexes :
          /\ i + 1 \in TokenIndexes /\ i + 2 \in TokenIndexes
          /\ out[i].pos.range.end = out[i + 1].pos.range.start
          /\ out[i + 1].pos.range.end = out[i + 2].pos.range.start

----------------------------------------------------------------------------
(* C10 *)

\* The items a session yields from cursor k with line counter ex until the end
\* of the input.
RECURSIVE ItemsFrom(_, _, _)
ItemsFrom(s, k, ex) ==
    LET r == LexerNext(s, k, ex)
    IN  IF r.kind = "end" THEN <<>>
        ELSE <<r.item>> \o ItemsFrom(s, r.span.end, r.extras)

\* The number of items emitted up to and including the j-th consumed span.
ItemsUpTo(j) ==
    Cardinality({i \in 1..j : consumed[i].kind \in {"token", "error"}})

\* C10: an error does not end the session.  Every failed match is one Err item
\* and moves the cursor on; end-of-input is signalled only with the cursor at
\* the end of the input; and what is emitted after an error is what lexing the
\* rest of the input from the end of the failed span yields, so every lexeme
\* there is still emitted.
C10_ErrorsDoNotEndSession ==
    /\ ended => token_end = Len(source)
    /\ Cardinality({i \in 1..Len(out) : ~out[i].ok})
         = Cardinality({j \in 1..Len(consumed) : consumed[j].kind = "error"})
    /\ \A j \in 1..Len(consumed) :
          consumed[j].kind = "error" =>
              /\ consumed[j].start < consumed[j].end
              /\ ~out[ItemsUpTo(j)].ok
              /\ ended =>
                    SubSeq(out, ItemsUpTo(j) + 1, Len(out))
                      = ItemsFrom(source, consumed[j].end,
                                  line0 + NewlinesBefore(source, consumed[j].end))
    /\ (ended /\ source = <<"'", " ", "i", "f", " ", "4">>) =>
          out = <<[ok |-> FALSE, error |-> "UnrecognisedCharacter"],
                  Reserved1("If", line0, 2, 4),
                  [ok |-> TRUE, tag |-> "Num", value |-> [mant |-> 4, exp |-> 0],
                   pos |-> [line |-> line0, column |-> 6, range |-> Span(5, 6)]]>>

\* A finished session with an error followed by tokens.
C10_Witness ==
    /\ ended
    /\ \E i \in 1..(Len(out) - 2) :
          ~out[i].ok /\ out[i + 1].ok /\ out[i + 2].ok

----------------------------------------------------------------------------
(* C11 *)

\* C11: every session terminates.  The next() call of a session that has not
\* signalled end-of-input either signals it or moves the cursor on by at least
\* one byte, also when it returns an error, and signals it when the cursor is at
\* the end; every span gone over is non-empty, so the items emitted never
\* outnumber the bytes consumed and the cursor never passes the end of the input:
\* an input of n bytes yields at most n items before the end is signalled.
C11_SessionTerminates ==
    /\ ~ended =>
          LET r == LexerNext(source, token_end, extras)
          IN  /\ r.kind = "end" \/ r.span.end > token_end
              /\ r.kind = "error" => r.span.start < r.span.end
              /\ token_end = Len(source) => r.kind = "end"
    /\ \A j \in 1..Len(consumed) : consumed[j].start < consumed[j].end
    /\ Len(out) <= token_end
    /\ token_end <= Len(source)
    /\ ended => Len(out) <= Len(source)

\* A finished session that emitted as many items as the input has bytes, an
\* error among them.
C11_Witness ==
    /\ ended
    /\ Len(source) >= 2
    /\ Len(out) = Len(source)
    /\ \E i \in 1..Len(out) : ~out[i].ok

----------------------------------------------------------------------------
(* C12 *)

\* A lexeme starts at a double quote at offset q, string characters follow, and
\* at offset c stands a raw control character before any closing quote.
ControlInString(q, c) ==
    /\ LexemeStartsAt(q)
    /\ At(source, q) = "\""
    /\ q < c /\ c < Len(source)
    /\ \A x \in (q + 1)..(c - 1) : At(source, x) \notin ({"\"", "\\"} \cup Control)
    /\ At(source, c) \in Control

StringCovers(c) ==
    \E i \in TokenIndexes :
        /\ out[i].tag = "String"
        /\ out[i].pos.range.start <= c /\ c < out[i].pos.range.end

----------------------------------------------------------------------------
(* C13 *)

\* C13: a session constructed without an explicit initial line number starts
\* with line counter 1, so in every session every token has line >= 1 and
\* column >= 1.
C13_LinesAndColumnsFromOne ==
    /\ line0 = DefaultExtras => line0 = 1
    /\ \A i \in TokenIndexes :
          out[i].pos.line >= 1 /\ out[i].pos.column >= 1

----------------------------------------------------------------------------
(* C14 *)

\* C14: sessions are isolated and deterministic.  However the next() calls of
\* two sessions are interleaved, each has emitted a prefix of what it emits when
\* run alone from its own input and initial line, and all of it once it has
\* signalled end-of-input; two finished sessions over the same input and the
\* same initial line have emitted the same sequence.
C14_SessionsIsolated ==
    /\ out = SubSeq(ItemsFrom(source, 0, line0), 1, Len(out))
    /\ ended => out = ItemsFrom(source, 0, line0)
    /\ peer.out = SubSeq(ItemsFrom(peer.source, 0, peer.line0), 1, Len(peer.out))
    /\ peer.ended => peer.out = ItemsFrom(peer.source, 0, peer.line0)
    /\ (ended /\ peer.ended /\ peer.source = source /\ peer.line0 = line0) =>
          peer.out = out

\* Both sessions are under way over the same input, each past a newline, the
\* first ahead of the second.
C14_Witness ==
    /\ ~ended /\ ~peer.ended
    /\ peer.source = source /\ peer.line0 = line0
    /\ extras > line0 /\ peer.extras > peer.line0
    /\ Len(out) > Len(peer.out) /\ Len(peer.out) >= 1

----------------------------------------------------------------------------
(* C15 *)

\* C15: the text of every emitted Identifier and String token is the input slice
\* over the token's range, character for character; the text of a String token
\* begins and ends with the double quotes of the literal, and a backslash of the
\* input is still a backslash in the text.
C15_TextIsTheSlice ==
    \A i \in TokenIndexes :
        out[i].tag \in {"Identifier", "String"} =>
            /\ out[i].text = Slice(source, out[i].pos.range)
            /\ Len(out[i].text) = out[i].pos.range.end - out[i].pos.range.start
            /\ out[i].tag = "String" =>
                  /\ Len(out[i].text) >= 2
                  /\ Head(out[i].text) = "\""
                  /\ out[i].text[Len(out[i].text)] = "\""

\* A string literal with an escape sequence has been emitted as written.
C15_Witness ==
    /\ source = <<"\"", "a", "\\", "n", "\"">>
    /\ Len(out) = 1
    /\ out[1].ok /\ out[1].tag = "String"
    /\ out[1].text = <<"\"", "a", "\\", "n", "\"">>
    /\ out[1].pos.range = Span(0, 5)

----------------------------------------------------------------------------
(* C16 *)

\* [[:digit:]]+(\.[[:digit:]]+)?([eE][-+]?[[:digit:]]+)? matches the whole of w:
\* digits up to i, an optional fraction up to f, an optional exponent after it.
MatchesNumberPattern(w) ==
    \E i \in 1..Len(w) : \E f \in i..Len(w) :
        /\ \A j \in 1..i : w[j] \in Digit
        /\ \/ f = i
           \/ f >= i + 2 /\ w[i + 1] = "." /\ \A j \in (i + 2)..f : w[j] \in Digit
        /\ \/ f = Len(w)
           \/ /\ w[f + 1] \in {"e", "E"}
              /\ LET g == IF f + 2 <= Len(w) /\ w[f + 2] \in {"-", "+"}
                          THEN f + 2 ELSE f + 1
                 IN  g < Len(w) /\ \A j \in (g + 1)..Len(w) : w[j] \in Digit

\* Some rule that emits a token matches the whole of w.
RuleMatches(w) ==
    \/ w \in ReservedLexemes
    \/ MatchesWordPattern(w)
    \/ w # <<>> /\ \A j \in 1..Len(w) : IsSymbol(w[j])
    \/ MatchesNumberPattern(w)
    \/ w # <<>> /\ StringLen(w, 0) = Len(w)

\* The prefix of length n of the input from offset a on.
Prefix(a, n) == SubSeq(source, a + 1, a + n)

\* C16: every emitted token covers a prefix of the input at its start that some
\* rule matches, and no rule matches a longer prefix there; a token whose slice
\* is a reserved lexeme carries that lexeme's reserved tag and never Identifier,
\* and a token whose slice is not a reserved lexeme is an Identifier, a String or
\* a Num.  "letrec" yields LetRec alone and "iff" yields Identifier("iff") alone.
C16_LongestPrefixReservedFirst ==
    /\ \A i \in TokenIndexes :
          LET a == out[i].pos.range.start
              b == out[i].pos.range.end
          IN  /\ RuleMatches(Prefix(a, b - a))
              /\ \A n \in 1..(Len(source) - a) : RuleMatches(Prefix(a, n)) => n <= b - a
              /\ Prefix(a, b - a) \in ReservedLexemes =>
                    \E r \in Reserved : r.lexeme = Prefix(a, b - a) /\ r.tag = out[i].tag
              /\ Prefix(a, b - a) \notin ReservedLexemes =>
                    out[i].tag \in {"Identifier", "String", "Num"}
    /\ (ended /\ source = <<"l", "e", "t", "r", "e", "c">>) =>
          out = <<Reserved1("LetRec", line0, 0, 6)>>
    /\ (ended /\ source = <<"i", "f", "f">>) =>
          out = <<Identifier(<<"i", "f", "f">>, line0, 0)>>

\* "letrec x" has been lexed: LetRec over 0..6, where the reserved "let" and the
\* word-identifier pattern match too, and then the identifier.
C16_Witness ==
    /\ ended
    /\ source = <<"l", "e", "t", "r", "e", "c", " ", "x">>
    /\ out = <<Reserved1("LetRec", line0, 0, 6), Identifier(<<"x">>, line0, 7)>>

----------------------------------------------------------------------------
(* C17 *)

FourDotA == <<"4", ".", "a">>

----------------------------------------------------------------------------
(* C18 *)

\* Space, tab, form feed, newline and carriage return.  (The vertical tab is
\* one more character the symbolic-identifier class does not exclude; it has no
\* escape here and takes the same path as the carriage return.)
Whitespace == {" ", "\t", "\f", "\n", "\r"}

\* C18: no emitted Identifier contains a whitespace character: the text of every
\* Identifier is free of space, tab, form feed, newline and carriage return.
C18_NoWhitespaceInIdentifier ==
    \A i \in TokenIndexes :
        out[i].tag = "Identifier" =>
            \A j \in 1..Len(out[i].text) : out[i].text[j] \notin Whitespace

----------------------------------------------------------------------------
(* C19 *)

\* Offset k holds an apostrophe, or a double quote that opens no well-formed
\* string literal.
NoRuleStartsAt(k) ==
    \/ At(source, k) = "'"
    \/ At(source, k) = "\"" /\ StringLen(source, k) = 0

\* C19: every error begins at an apostrophe or at a double quote that opens no
\* well-formed string literal, and every error is UnrecognisedCharacter; at a
\* cursor whose next character after the skipped whitespace is anything else the
\* next item is an Ok token, and at such an apostrophe or quote it is an error.
C19_ErrorsOnlyAtApostropheOrQuote ==
    /\ \A j \in 1..Len(consumed) :
          consumed[j].kind = "error" => NoRuleStartsAt(consumed[j].start)
    /\ \A j \in 1..Len(consumed) :
          consumed[j].kind = "token" => ~NoRuleStartsAt(consumed[j].start)
    /\ \A i \in 1..Len(out) :
          ~out[i].ok => out[i].error = "UnrecognisedCharacter"
    /\ ~ended =>
          LET r == LexerNext(source, token_end, extras)
          IN  /\ r.kind = "error" => NoRuleStartsAt(r.span.start)
              /\ r.kind = "token" => ~NoRuleStartsAt(r.span.start)

\* An input with an apostrophe and an unclosed quote has been lexed: an error at
\* each, an Ok token at the word between them.
C19_Witness ==
    /\ ended
    /\ source = <<"'", "a", "\n", "\"", "b">>
    /\ Len(out) = 3
    /\ ~out[1].ok /\ out[2].ok /\ ~out[3].ok
    /\ consumed[1].start = 0 /\ consumed[Len(consumed)].start = 3

----------------------------------------------------------------------------
(* C20 *)

ReservedPunctuation ==
    {<<"+", "+">>, <<"-", "-", "-">>, <<"<", "=">>, <<"=", "=">>, <<"=", ">">>}

\* C20: no emitted Identifier has a text that is a reserved lexeme, keyword or
\* punctuation; a token whose slice is a reserved lexeme is never an Identifier,
\* and an input that is one of ++ --- <= == => yields its reserved token alone.
C20_NoIdentifierIsReserved ==
    /\ \A i \in TokenIndexes :
          out[i].tag = "Identifier" => out[i].text \notin ReservedLexemes
    /\ \A i \in TokenIndexes :
          Slice(source, out[i].pos.range) \in ReservedLexemes =>
              out[i].tag \in {r.tag : r \in Reserved}
    /\ (ended /\ source \in ReservedPunctuation) =>
          /\ Len(out) = 1
          /\ out[1].ok
          /\ out[1].tag \in {r.tag : r \in {q \in Reserved : q.lexeme = source}}

\* "x == 4" has been lexed: an Identifier, the reserved token of "==" and a
\* number.
C20_Witness ==
    /\ ended
    /\ source = <<"x", " ", "=", "=", " ", "4">>
    /\ Len(out) = 3
    /\ out[1].ok /\ out[1].tag = "Identifier"
    /\ out[2].ok /\ out[2].tag \notin {"Identifier", "String", "Num"}
    /\ out[2].pos.range = Span(2, 4)

====
